---- MODULE Spec2Model ----
(***************************************************************************)
(* GitHubClient (github-repo-access-plugin/github_client.py): a facade     *)
(* over the PyGithub library with five coroutines.  Each invocation runs   *)
(* in a slot; one step of a slot is one statement group of the coroutine  *)
(* (a remote call, a test, a formatting step).  The remote service is the  *)
(* environment: every remote call draws its response, or its failure,     *)
(* from a bounded set.                                                     *)
(*                                                                         *)
(* Python values: None is <<>> and a present value v is <<v>>; a str is a  *)
(* sequence of string fragments; bytes are sequences of 0..255.            *)
(***************************************************************************)
EXTENDS Integers, Sequences, FiniteSets, TLC

VARIABLES token, github, inv

vars == <<token, github, inv>>

(* ------------------------------ bounds -------------------------------- *)

MaxChildren == 2
MaxBytes == 2
MaxMatches == 52
MaxChildrenConc == 1
MaxMatchesConc == 1
MaxBytesConc == 1

(* -------------------------- program constants ------------------------- *)

SearchCap == 50

(* --------------------------- Python values ---------------------------- *)

None == <<>>

Some(v) == <<v>>

Truthy(o) == o # None /\ o[1] # ""

(* ------------------------------ UTF-8 --------------------------------- *)

Utf8Need(b) ==
  IF b < 128 THEN 1
  ELSE IF b \in 194..223 THEN 2
  ELSE IF b \in 224..239 THEN 3
  ELSE IF b \in 240..244 THEN 4
  ELSE 0

Utf8SecondOk(lead, b) ==
  IF lead = 224 THEN b \in 160..191
  ELSE IF lead = 237 THEN b \in 128..159
  ELSE IF lead = 240 THEN b \in 144..191
  ELSE IF lead = 244 THEN b \in 128..143
  ELSE b \in 128..191

Utf8Tail(bytes, n) ==
  /\ Len(bytes) >= n
  /\ n >= 2 => Utf8SecondOk(bytes[1], bytes[2])
  /\ \A k \in 3..n : bytes[k] \in 128..191

Utf8CodePoint(bytes, n) ==
  IF n = 1 THEN bytes[1]
  ELSE IF n = 2 THEN (bytes[1] - 192) * 64 + (bytes[2] - 128)
  ELSE IF n = 3 THEN (bytes[1] - 224) * 4096 + (bytes[2] - 128) * 64 + (bytes[3] - 128)
  ELSE (bytes[1] - 240) * 262144 + (bytes[2] - 128) * 4096
         + (bytes[3] - 128) * 64 + (bytes[4] - 128)

Chr(cp) == "U+" \o ToString(cp)

RECURSIVE Utf8Decode(_)
\* bytes.decode('utf-8'): [ok |-> TRUE, text |-> str] or [ok |-> FALSE] for
\* UnicodeDecodeError.
Utf8Decode(bytes) ==
  IF bytes = <<>> THEN [ok |-> TRUE, text |-> <<>>]
  ELSE LET n == Utf8Need(bytes[1])
       IN  IF n = 0 \/ ~Utf8Tail(bytes, n) THEN [ok |-> FALSE, text |-> <<>>]
           ELSE LET rest == Utf8Decode(SubSeq(bytes, n + 1, Len(bytes)))
                IN  IF rest.ok
                    THEN [ok |-> TRUE, text |-> <<Chr(Utf8CodePoint(bytes, n))>> \o rest.text]
                    ELSE rest

(* ------------------------------ base64 -------------------------------- *)

B64Pad == 64

RECURSIVE B64Encode(_)
\* The transport encoding of the remote "content" attribute: sextets 0..63
\* and the pad symbol.
B64Encode(bytes) ==
  IF bytes = <<>> THEN <<>>
  ELSE IF Len(bytes) = 1
  THEN <<bytes[1] \div 4, (bytes[1] % 4) * 16, B64Pad, B64Pad>>
  ELSE IF Len(bytes) = 2
  THEN <<bytes[1] \div 4, (bytes[1] % 4) * 16 + bytes[2] \div 16,
         (bytes[2] % 16) * 4, B64Pad>>
  ELSE <<bytes[1] \div 4, (bytes[1] % 4) * 16 + bytes[2] \div 16,
         (bytes[2] % 16) * 4 + bytes[3] \div 64, bytes[3] % 64>>
       \o B64Encode(SubSeq(bytes, 4, Len(bytes)))

RECURSIVE B64Decode(_)
\* base64.b64decode: [ok |-> TRUE, bytes |-> b] or [ok |-> FALSE] for
\* binascii.Error (incorrect padding).
B64Decode(s) ==
  IF s = <<>> THEN [ok |-> TRUE, bytes |-> <<>>]
  ELSE IF Len(s) < 4 \/ s[1] = B64Pad \/ s[2] = B64Pad
  THEN [ok |-> FALSE, bytes |-> <<>>]
  ELSE LET b1 == s[1] * 4 + s[2] \div 16
           b2 == (s[2] % 16) * 16 + s[3] \div 4
           b3 == (s[3] % 4) * 64 + s[4]
       IN  IF s[3] = B64Pad
           THEN IF s[4] = B64Pad /\ Len(s) = 4
                THEN [ok |-> TRUE, bytes |-> <<b1>>]
                ELSE [ok |-> FALSE, bytes |-> <<>>]
           ELSE IF s[4] = B64Pad
           THEN IF Len(s) = 4
                THEN [ok |-> TRUE, bytes |-> <<b1, b2>>]
                ELSE [ok |-> FALSE, bytes |-> <<>>]
           ELSE LET rest == B64Decode(SubSeq(s, 5, Len(s)))
                IN  IF rest.ok
                    THEN [ok |-> TRUE, bytes |-> <<b1, b2, b3>> \o rest.bytes]
                    ELSE rest

(* ------------------------ the remote service -------------------------- *)

NoError == [type |-> "", msg |-> <<>>]

\* What a remote call can raise: three subclasses of github.GithubException
\* and one transport error that is not one.
RemoteErrors ==
  { [type |-> "UnknownObjectException", msg |-> <<"404 Not Found">>],
    [type |-> "GithubException", msg |-> <<"403 Forbidden">>],
    [type |-> "RateLimitExceededException", msg |-> <<"403 rate limit exceeded">>],
    [type |-> "ConnectionError", msg |-> <<"connection failed">>] }

GithubExceptionTypes ==
  {"UnknownObjectException", "GithubException", "RateLimitExceededException"}

IsGithubException(e) == e.type \in GithubExceptionTypes

IsException(e) == e.type \in GithubExceptionTypes \cup {"ConnectionError"}

Ok(v) == [ok |-> TRUE, val |-> v, err |-> NoError]

Err(e) == [ok |-> FALSE, val |-> None, err |-> e]

Failures(errors) == {Err(e) : e \in errors}

SeqsUpTo(S, n) == UNION {[1..k -> S] : k \in 0..n}

\* Repository objects returned by get_repo.
RepoObjects ==
  { [name |-> "hello-world", full_name |-> "octo/hello-world",
     description |-> Some("demo"), owner_login |-> "octo",
     private |-> FALSE, fork |-> FALSE,
     created_at |-> Some(2020), updated_at |-> Some(2021), pushed_at |-> Some(2022),
     size |-> 7, stargazers_count |-> 3, watchers_count |-> 3, forks_count |-> 1,
     open_issues_count |-> 0, default_branch |-> "main", language |-> Some("Python"),
     has_topics |-> TRUE, topics |-> <<"chat", "plugin">>],
    [name |-> "hello-world", full_name |-> "octo/hello-world",
     description |-> None, owner_login |-> "octo",
     private |-> TRUE, fork |-> TRUE,
     created_at |-> None, updated_at |-> Some(2021), pushed_at |-> None,
     size |-> 0, stargazers_count |-> 0, watchers_count |-> 0, forks_count |-> 0,
     open_issues_count |-> 0, default_branch |-> "main", language |-> None,
     has_topics |-> FALSE, topics |-> <<>>] }

\* The children a directory listing can hold: every remote item type.
DirItems ==
  { [name |-> "README.md", path |-> "README.md", type |-> "file", size |-> 42],
    [name |-> "empty.txt", path |-> "empty.txt", type |-> "file", size |-> 0],
    [name |-> "src", path |-> "src", type |-> "dir", size |-> 0],
    [name |-> "link", path |-> "link", type |-> "symlink", size |-> 9],
    [name |-> "vendor", path |-> "vendor", type |-> "submodule", size |-> 0] }

Bytes == {65, 195, 169, 255}

\* The object a path to a single file resolves to.  It may expose the
\* decoded bytes ("decoded_content", possibly None), only the base64
\* "content" (possibly None), or neither.
FileObject(type, size, hasDecoded, decoded, hasContent, content) ==
  [name |-> "README.md", path |-> "README.md", type |-> type, size |-> size,
   has_decoded_content |-> hasDecoded, decoded_content |-> decoded,
   has_content |-> hasContent, content |-> content]

FileObjects(maxBytes) ==
  LET BS == SeqsUpTo(Bytes, maxBytes)
  IN  UNION { {FileObject(t, Len(b), TRUE, Some(b), TRUE, Some(B64Encode(b))) : b \in BS}
              \cup {FileObject(t, Len(b), FALSE, None, TRUE, Some(B64Encode(b))) : b \in BS}
              \cup {FileObject(t, n, TRUE, None, TRUE, None) : n \in 0..maxBytes}
              \cup {FileObject(t, n, FALSE, None, TRUE, None) : n \in 0..maxBytes}
              \cup {FileObject(t, n, FALSE, None, FALSE, None) : n \in 0..maxBytes}
            : t \in {"file", "symlink"} }

NoFile == FileObject("", 0, FALSE, None, FALSE, None)

ListContents(items) == [is_list |-> TRUE, items |-> items, file |-> NoFile]

FileContents(f) == [is_list |-> FALSE, items |-> <<>>, file |-> f]

ContentsValues(maxChildren, maxBytes) ==
  {ListContents(l) : l \in SeqsUpTo(DirItems, maxChildren)}
    \cup {FileContents(f) : f \in FileObjects(maxBytes)}

\* Search hits: hit number n is the n-th the remote service ranks; its
\* identity depends on the ranking, so the remote order is not sorted.
Strides == {1, 7}

RemoteResult(n, stride, full) ==
  [name |-> (n * stride) % 59, path |-> (n * stride) % 59,
   repository |-> [full_name |-> "octo/hello-world", has_language |-> full,
                   language |-> Some("Python")],
   html_url |-> (n * stride) % 59,
   has_score |-> full, score |-> 59 - n,
   has_size |-> full, size |-> n]

SearchValues(maxMatches) ==
  { [n \in 1..m |-> RemoteResult(n, s, f)] :
      m \in 0..maxMatches, s \in Strides, f \in BOOLEAN }

RateLimits == { [core |-> [remaining |-> r]] : r \in {0, 5000} }

\* The inputs of one environment: the full one, and a small one for
\* concurrent invocations.
Env ==
  [ errors   |-> RemoteErrors,
    paths    |-> {"/", "/README.md"},
    branches |-> {None, Some("dev")},
    contents |-> ContentsValues(MaxChildren, MaxBytes),
    searches |-> SearchValues(MaxMatches),
    queries  |-> {<<"foo">>, <<"foo", " user:", "x">>},
    owners   |-> {None, Some(""), Some("a")},
    repos    |-> {None, Some(""), Some("b")} ]

EnvConc ==
  [ errors   |-> RemoteErrors,
    paths    |-> {"/"},
    branches |-> {None},
    contents |-> {c \in ContentsValues(MaxChildrenConc, MaxBytesConc) :
                    c.is_list \/ (c.file.type = "file" /\ c.file.has_content)},
    searches |-> {s \in SearchValues(MaxMatchesConc) : \A n \in DOMAIN s : s[n].has_score},
    queries  |-> {<<"foo">>},
    owners   |-> {None, Some("a")},
    repos    |-> {None} ]

(* ------------------------- invocation state --------------------------- *)

Slots == {1}

SlotsConc == {1, 2}

AllSlots == Slots \cup SlotsConc

NoArgs == [owner |-> None, repo |-> None, path |-> "", branch |-> None, query |-> <<>>]

NoResult == [kind |-> "none", val |-> None, exc |-> NoError]

Return(v) == [kind |-> "return", val |-> v, exc |-> NoError]

Raise(e) == [kind |-> "raise", val |-> None, exc |-> e]

Idle ==
  [pc |-> "idle", op |-> "none", args |-> NoArgs, calls |-> <<>>,
   content_str |-> None, search_query |-> None, result |-> NoResult]

\* GitHubClient.__init__
Construct(tok) ==
  /\ token = tok
  /\ github = [auth |-> IF Truthy(tok) THEN tok ELSE None]
  /\ inv = [i \in AllSlots |-> Idle]

Init == \E tok \in {None, Some(""), Some("tok")} : Construct(tok)

InitConc == \E tok \in {None, Some("tok")} : Construct(tok)

\* One step of the coroutine in slot i: its frame becomes r; the client
\* object is not assigned.
Step(i, r) ==
  /\ inv' = [inv EXCEPT ![i] = r]
  /\ UNCHANGED <<token, github>>

\* The frame of a coroutine that has just been called.
Begun(op, args, pc) == [Idle EXCEPT !.pc = pc, !.op = op, !.args = args]

Logged(i, call, arg, resp) ==
  Append(inv[i].calls, [call |-> call, arg |-> arg, resp |-> resp])

\* Mutant: "contents" kept on the client object, where the latest writer
\* among the running invocations wins.
ContentsOnClient(i) ==
  LET S == {j \in AllSlots : Len(inv[j].calls) >= 2 /\ inv[j].calls[2].resp.ok}
  IN  inv[CHOOSE j \in S : \A k \in S : j <= k].calls[2].resp.val

\* The local variables of the frame in slot i.
RepoObj(i) == inv[i].calls[1].resp.val

Contents(i) == inv[i].calls[2].resp.val

Results(i) == inv[i].calls[1].resp.val

RateLimit(i) == inv[i].calls[1].resp.val

\* The caller's await completes and the slot is free for another call.
Await(i) ==
  /\ inv[i].pc = "done"
  /\ Step(i, Idle)

(* ---------------------- get_repository_structure ---------------------- *)

CallGetRepositoryStructure(i, E) ==
  /\ inv[i].pc = "idle"
  /\ \E path \in E.paths, branch \in E.branches :
       Step(i, Begun("get_repository_structure",
                     [NoArgs EXCEPT !.owner = Some("octo"), !.repo = Some("hello-world"),
                                    !.path = path, !.branch = branch],
                     "get_repo"))

\* What leaves an operation when a remote call raises e: only
\* get_repository_structure has an except clause, and it names
\* GithubException.
Escapes(op, e) ==
  IF op = "get_repository_structure" /\ IsGithubException(e)
  THEN [type |-> "Exception", msg |-> <<"GitHub API error: ">> \o e.msg]
  ELSE e

AfterRepo(op) ==
  IF op = "get_repository_info" THEN "format_info" ELSE "get_contents"

\* Mutant: a failed get_repo is tried again.
GetRepoRetrying(i, E) ==
  /\ inv[i].pc = "get_repo"
  /\ \E resp \in {Ok(r) : r \in RepoObjects} \cup Failures(E.errors) :
       LET a == inv[i].args
           log == Logged(i, "get_repo", <<a.owner[1], "/", a.repo[1]>>, resp)
       IN  IF resp.ok
           THEN Step(i, [inv[i] EXCEPT !.calls = log, !.pc = AfterRepo(inv[i].op)])
           ELSE Step(i, [inv[i] EXCEPT !.calls = log])

\* repo_obj = self.github.get_repo(f"{owner}/{repo}")
GetRepo(i, E) ==
  /\ inv[i].pc = "get_repo"
  /\ \E resp \in {Ok(r) : r \in RepoObjects} \cup Failures(E.errors) :
       LET a == inv[i].args
           log == Logged(i, "get_repo", <<a.owner[1], "/", a.repo[1]>>, resp)
       IN  IF resp.ok
           THEN Step(i, [inv[i] EXCEPT !.calls = log, !.pc = AfterRepo(inv[i].op)])
           ELSE Step(i, [inv[i] EXCEPT !.calls = log, !.pc = "done",
                                       !.result = Raise(Escapes(inv[i].op, resp.err))])

AfterContents(op) ==
  IF op = "get_repository_structure" THEN "format_structure" ELSE "check_directory"

\* repo_obj.get_contents(path, ref=branch) if branch else repo_obj.get_contents(path)
GetContents(i, E) ==
  /\ inv[i].pc = "get_contents"
  /\ \E resp \in {Ok(c) : c \in E.contents} \cup Failures(E.errors) :
       LET a == inv[i].args
           ref == IF Truthy(a.branch) THEN a.branch ELSE None
           log == Logged(i, "get_contents", <<a.path, ref>>, resp)
       IN  IF resp.ok
           THEN Step(i, [inv[i] EXCEPT !.calls = log, !.pc = AfterContents(inv[i].op)])
           ELSE Step(i, [inv[i] EXCEPT !.calls = log, !.pc = "done",
                                       !.result = Raise(Escapes(inv[i].op, resp.err))])

ItemType(item) == IF item.type = "dir" THEN "dir" ELSE "file"

ItemSize(item) == IF item.type = "file" THEN Some(item.size) ELSE None

ItemData(item) ==
  [name |-> item.name, path |-> item.path, type |-> ItemType(item), size |-> ItemSize(item)]

SingleItem(f) ==
  [name |-> f.name, path |-> f.path, type |-> "file", size |-> Some(f.size)]

\* Mutant: children that are not files are left out of the listing.
ListingFilesOnly(path, contents) ==
  IF contents.is_list
  THEN LET files == SelectSeq(contents.items, LAMBDA it : it.type = "file")
       IN  [path |-> path, items |-> [k \in 1..Len(files) |-> ItemData(files[k])]]
  ELSE [path |-> path, items |-> <<SingleItem(contents.file)>>]

Listing(path, contents) ==
  IF contents.is_list
  THEN [path |-> path, items |-> [k \in 1..Len(contents.items) |-> ItemData(contents.items[k])]]
  ELSE [path |-> path, items |-> <<SingleItem(contents.file)>>]

FormatStructure(i) ==
  /\ inv[i].pc = "format_structure"
  /\ Step(i, [inv[i] EXCEPT !.pc = "done",
                            !.result = Return(Listing(inv[i].args.path, Contents(i)))])

(* -------------------------- get_file_content -------------------------- *)

CallGetFileContent(i, E) ==
  /\ inv[i].pc = "idle"
  /\ \E path \in E.paths, branch \in E.branches :
       Step(i, Begun("get_file_content",
                     [NoArgs EXCEPT !.owner = Some("octo"), !.repo = Some("hello-world"),
                                    !.path = path, !.branch = branch],
                     "get_repo"))

DirectoryError == [type |-> "ValueError", msg |-> <<"Cannot get ", "directory", " content">>]

\* Mutant: the directory test is missing.
CheckDirectorySkipped(i) ==
  /\ inv[i].pc = "check_directory"
  /\ Step(i, [inv[i] EXCEPT !.pc = "decode"])

\* if isinstance(file_content, list): raise ValueError(...)
CheckDirectory(i) ==
  /\ inv[i].pc = "check_directory"
  /\ IF Contents(i).is_list
     THEN Step(i, [inv[i] EXCEPT !.pc = "done", !.result = Raise(DirectoryError)])
     ELSE Step(i, [inv[i] EXCEPT !.pc = "decode"])

Placeholder(size) ==
  <<"[Binary or unsupported encoding - size: ", ToString(size), " bytes]">>

DecodeError == [type |-> "UnicodeDecodeError", msg |-> <<"invalid start byte">>]

\* decoded_bytes.decode('utf-8') where decoded_content is present: no try
\* surrounds it.
DecodeDecoded(f) ==
  IF f.decoded_content = None THEN [raised |-> FALSE, exc |-> NoError, str |-> <<>>]
  ELSE LET d == Utf8Decode(f.decoded_content[1])
       IN  IF d.ok THEN [raised |-> FALSE, exc |-> NoError, str |-> d.text]
           ELSE [raised |-> TRUE, exc |-> DecodeError, str |-> <<>>]

\* base64.b64decode(content).decode('utf-8') inside try/except Exception:
\* a None content (TypeError), bad padding and invalid UTF-8 all end in the
\* placeholder.
DecodeBase64(f) ==
  IF f.content = None THEN [raised |-> FALSE, exc |-> NoError, str |-> Placeholder(f.size)]
  ELSE LET b == B64Decode(f.content[1])
           d == Utf8Decode(b.bytes)
       IN  IF b.ok /\ d.ok THEN [raised |-> FALSE, exc |-> NoError, str |-> d.text]
           ELSE [raised |-> FALSE, exc |-> NoError, str |-> Placeholder(f.size)]

DecodeContent(f) ==
  IF f.has_decoded_content THEN DecodeDecoded(f)
  ELSE IF f.has_content THEN DecodeBase64(f)
  ELSE [raised |-> FALSE, exc |-> NoError, str |-> <<>>]

Decode(i) ==
  /\ inv[i].pc = "decode"
  /\ LET d == DecodeContent(Contents(i).file)
     IN  IF d.raised
         THEN Step(i, [inv[i] EXCEPT !.pc = "done", !.result = Raise(d.exc)])
         ELSE Step(i, [inv[i] EXCEPT !.pc = "return_content", !.content_str = Some(d.str)])

FileContent(path, str, f) ==
  [path |-> path, content |-> str, size |-> f.size, encoding |-> "utf-8"]

ReturnContent(i) ==
  /\ inv[i].pc = "return_content"
  /\ Step(i, [inv[i] EXCEPT
                !.pc = "done",
                !.result = Return(FileContent(inv[i].args.path, inv[i].content_str[1],
                                              Contents(i).file))])

(* --------------------------- test_connection -------------------------- *)

CallTestConnection(i) ==
  /\ inv[i].pc = "idle"
  /\ Step(i, Begun("test_connection", NoArgs, "get_rate_limit"))

\* except Exception as e: return False
Swallowed(e) == IF IsException(e) THEN Return(FALSE) ELSE Raise(e)

GetRateLimit(i, E) ==
  /\ inv[i].pc = "get_rate_limit"
  /\ \E resp \in {Ok(r) : r \in RateLimits} \cup Failures(E.errors) :
       LET log == Logged(i, "get_rate_limit", <<>>, resp)
       IN  IF resp.ok
           THEN Step(i, [inv[i] EXCEPT !.calls = log, !.pc = "check_remaining"])
           ELSE Step(i, [inv[i] EXCEPT !.calls = log, !.pc = "done",
                                       !.result = Swallowed(resp.err)])

\* Mutant: an exhausted quota reports no connection.
ConnectedIfQuota(rate_limit) == rate_limit.core.remaining > 0

Connected(rate_limit) == IF rate_limit.core.remaining > 0 THEN TRUE ELSE TRUE

CheckRemaining(i) ==
  /\ inv[i].pc = "check_remaining"
  /\ Step(i, [inv[i] EXCEPT !.pc = "done", !.result = Return(Connected(RateLimit(i)))])

(* ------------------------- get_repository_info ------------------------ *)

CallGetRepositoryInfo(i) ==
  /\ inv[i].pc = "idle"
  /\ Step(i, Begun("get_repository_info",
                   [NoArgs EXCEPT !.owner = Some("octo"), !.repo = Some("hello-world")],
                   "get_repo"))

IsoFormat(year) == ToString(year) \o "-01-01T00:00:00"

IsoOrNone(t) == IF t # None THEN Some(IsoFormat(t[1])) ELSE None

RepositoryInfo(r) ==
  [name |-> r.name, full_name |-> r.full_name, description |-> r.description,
   owner |-> r.owner_login, private |-> r.private, fork |-> r.fork,
   created_at |-> IsoOrNone(r.created_at), updated_at |-> IsoOrNone(r.updated_at),
   pushed_at |-> IsoOrNone(r.pushed_at), size |-> r.size,
   stargazers_count |-> r.stargazers_count, watchers_count |-> r.watchers_count,
   forks_count |-> r.forks_count, open_issues_count |-> r.open_issues_count,
   default_branch |-> r.default_branch, language |-> r.language,
   topics |-> IF r.has_topics THEN r.topics ELSE <<>>]

FormatInfo(i) ==
  /\ inv[i].pc = "format_info"
  /\ Step(i, [inv[i] EXCEPT !.pc = "done", !.result = Return(RepositoryInfo(RepoObj(i)))])

(* ----------------------------- search_code ---------------------------- *)

CallSearchCode(i, E) ==
  /\ inv[i].pc = "idle"
  /\ \E query \in E.queries, owner \in E.owners, repo \in E.repos :
       Step(i, Begun("search_code",
                     [NoArgs EXCEPT !.owner = owner, !.repo = repo, !.query = query],
                     "build_query"))

\* Mutant: the owner test comes first, so a repository is never scoped.
SearchQueryOwnerFirst(query, owner, repo) ==
  IF Truthy(owner) THEN query \o <<" user:", owner[1]>>
  ELSE IF Truthy(owner) /\ Truthy(repo) THEN query \o <<" repo:", owner[1], "/", repo[1]>>
  ELSE query

SearchQuery(query, owner, repo) ==
  IF Truthy(owner) /\ Truthy(repo) THEN query \o <<" repo:", owner[1], "/", repo[1]>>
  ELSE IF Truthy(owner) THEN query \o <<" user:", owner[1]>>
  ELSE query

BuildQuery(i) ==
  /\ inv[i].pc = "build_query"
  /\ LET a == inv[i].args
     IN  Step(i, [inv[i] EXCEPT !.pc = "search",
                                !.search_query = Some(SearchQuery(a.query, a.owner, a.repo))])

\* results = self.github.search_code(search_query)
SearchCode(i, E) ==
  /\ inv[i].pc = "search"
  /\ \E resp \in {Ok(r) : r \in E.searches} \cup Failures(E.errors) :
       LET log == Logged(i, "search_code", inv[i].search_query[1], resp)
       IN  IF resp.ok
           THEN Step(i, [inv[i] EXCEPT !.calls = log, !.pc = "format_results"])
           ELSE Step(i, [inv[i] EXCEPT !.calls = log, !.pc = "done",
                                       !.result = Raise(Escapes(inv[i].op, resp.err))])

Min(a, b) == IF a < b THEN a ELSE b

\* Mutant: the slice is missing.
Unlimited(results) == results

\* results[:50]
Limited(results) == SubSeq(results, 1, Min(Len(results), SearchCap))

Formatted(r) ==
  [name |-> r.name, path |-> r.path, repository |-> r.repository.full_name,
   url |-> r.html_url,
   score |-> IF r.has_score THEN Some(r.score) ELSE None,
   size |-> IF r.has_size THEN Some(r.size) ELSE None,
   language |-> IF r.repository.has_language THEN r.repository.language ELSE None]

FormattedResults(results) ==
  LET lim == Limited(results)
  IN  [k \in 1..Len(lim) |-> Formatted(lim[k])]

FormatResults(i) ==
  /\ inv[i].pc = "format_results"
  /\ Step(i, [inv[i] EXCEPT !.pc = "done", !.result = Return(FormattedResults(Results(i)))])

(* --------------------------- specifications --------------------------- *)

Next ==
  \E i \in Slots :
    \/ CallGetRepositoryStructure(i, Env)
    \/ CallGetFileContent(i, Env)
    \/ CallTestConnection(i)
    \/ CallGetRepositoryInfo(i)
    \/ CallSearchCode(i, Env)
    \/ GetRepo(i, Env)
    \/ GetContents(i, Env)
    \/ FormatStructure(i)
    \/ CheckDirectory(i)
    \/ Decode(i)
    \/ ReturnContent(i)
    \/ GetRateLimit(i, Env)
    \/ CheckRemaining(i)
    \/ FormatInfo(i)
    \/ BuildQuery(i)
    \/ SearchCode(i, Env)
    \/ FormatResults(i)
    \/ Await(i)

Spec == Init /\ [][Next]_vars

NextConc ==
  \E i \in SlotsConc :
    \/ CallGetRepositoryStructure(i, EnvConc)
    \/ CallGetFileContent(i, EnvConc)
    \/ CallTestConnection(i)
    \/ CallGetRepositoryInfo(i)
    \/ CallSearchCode(i, EnvConc)
    \/ GetRepo(i, EnvConc)
    \/ GetContents(i, EnvConc)
    \/ FormatStructure(i)
    \/ CheckDirectory(i)
    \/ Decode(i)
    \/ ReturnContent(i)
    \/ GetRateLimit(i, EnvConc)
    \/ CheckRemaining(i)
    \/ FormatInfo(i)
    \/ BuildQuery(i)
    \/ SearchCode(i, EnvConc)
    \/ FormatResults(i)
    \/ Await(i)

SpecConc == InitConc /\ [][NextConc]_vars

(* ------------------------------ claims -------------------------------- *)

Finished(i, op) == inv[i].pc = "done" /\ inv[i].op = op

\* The invocation in slot i has resolved its path: get_contents answered.
Resolved(i) == Len(inv[i].calls) >= 2 /\ inv[i].calls[2].resp.ok

FailedCall(i) == \E k \in 1..Len(inv[i].calls) : ~inv[i].calls[k].resp.ok

\* The bytes of the file are known and are not valid UTF-8.
NonUtf8(f) ==
  \/ f.decoded_content # None /\ ~Utf8Decode(f.decoded_content[1]).ok
  \/ f.content # None /\ ~Utf8Decode(B64Decode(f.content[1]).bytes).ok

\* C1: for every file whose bytes are not valid UTF-8, get_file_content
\* returns a FileContent whose content is the placeholder embedding the
\* file's byte size and raises no decode exception, whether the remote
\* object exposes decoded_content or only the base64 content.
C1_BinaryYieldsPlaceholder ==
  \A i \in AllSlots :
    (Finished(i, "get_file_content") /\ Resolved(i)
       /\ ~Contents(i).is_list /\ NonUtf8(Contents(i).file))
    => /\ inv[i].result.kind = "return"
       /\ inv[i].result.val.content = Placeholder(Contents(i).file.size)

\* C2: in every listing returned by get_repository_structure, an entry's
\* size is present iff the entry's type is "file", whatever the remote
\* item type.
C2_SizeIffFile ==
  \A i \in AllSlots :
    (Finished(i, "get_repository_structure") /\ inv[i].result.kind = "return")
    => \A k \in 1..Len(inv[i].result.val.items) :
         (inv[i].result.val.items[k].size # None)
           <=> (inv[i].result.val.items[k].type = "file")

\* C3: whenever a remote call of get_repository_structure fails, whatever
\* the failure, the operation fails with the generic "GitHub API error"
\* condition whose message embeds the underlying message, and no other
\* error kind escapes.
C3_GenericRemoteError ==
  \A i \in AllSlots :
    (Finished(i, "get_repository_structure") /\ FailedCall(i))
    => LET e == inv[i].calls[Len(inv[i].calls)].resp.err
       IN  inv[i].result
             = Raise([type |-> "Exception", msg |-> <<"GitHub API error: ">> \o e.msg])

\* C4: get_repository_structure returns a listing whose path is the
\* requested path and whose items are, one for one and in the remote order,
\* what the path resolves to: N entries for a directory of N children
\* (N = 0 included), one entry of type "file" with the file's size for a
\* single file.
C4_ListingMirrorsRemote ==
  \A i \in AllSlots :
    (Finished(i, "get_repository_structure") /\ Resolved(i))
    => LET c == Contents(i)
           v == inv[i].result.val
       IN  /\ inv[i].result.kind = "return"
           /\ v.path = inv[i].args.path
           /\ c.is_list =>
                /\ Len(v.items) = Len(c.items)
                /\ \A k \in 1..Len(c.items) :
                     /\ v.items[k].name = c.items[k].name
                     /\ v.items[k].path = c.items[k].path
           /\ ~c.is_list =>
                v.items = << [name |-> c.file.name, path |-> c.file.path,
                              type |-> "file", size |-> Some(c.file.size)] >>

C4_Witness ==
  \E i \in AllSlots :
    /\ Finished(i, "get_repository_structure") /\ Resolved(i)
    /\ Contents(i).is_list
    /\ Len(Contents(i).items) = 2
    /\ Contents(i).items[1].name # Contents(i).items[2].name
    /\ Len(inv[i].result.val.items) = 2

\* C5: when the path given to get_file_content resolves to a directory, the
\* operation raises ValueError with "directory" in its message right after
\* resolving the target: no decoding step runs and no record is returned.
C5_DirectoryRejected ==
  \A i \in AllSlots :
    (inv[i].op = "get_file_content" /\ Resolved(i) /\ Contents(i).is_list)
    => /\ inv[i].pc \in {"check_directory", "done"}
       /\ inv[i].content_str = None
       /\ Len(inv[i].calls) = 2
       /\ inv[i].pc = "done" =>
            /\ inv[i].result.kind = "raise"
            /\ inv[i].result.exc.type = "ValueError"
            /\ \E k \in 1..Len(inv[i].result.exc.msg) :
                 inv[i].result.exc.msg[k] = "directory"

C5_Witness ==
  \E i \in AllSlots :
    /\ Finished(i, "get_file_content") /\ Resolved(i)
    /\ Contents(i).is_list
    /\ Len(Contents(i).items) > 0
    /\ inv[i].result.exc.type = "ValueError"

\* C6: test_connection never raises: it returns true whenever the
\* rate-limit call succeeds, for every remaining quota, zero included, and
\* false exactly when the call fails.
C6_ConnectionBoolean ==
  \A i \in AllSlots :
    Finished(i, "test_connection")
    => /\ inv[i].result.kind = "return"
       /\ inv[i].result.val = inv[i].calls[1].resp.ok

C6_Witness ==
  \E i \in AllSlots :
    /\ Finished(i, "test_connection")
    /\ inv[i].calls[1].resp.ok
    /\ RateLimit(i).core.remaining = 0
    /\ inv[i].result = Return(TRUE)

\* An optional argument is given when it is a non-empty string; the code
\* tests it by truth value, so None and "" are both absent.
Given(o) == o # None /\ o # Some("")

\* C7: the query string search_code passes to the remote search is the
\* query followed by " repo:<owner>/<repo>" when owner and repo are both
\* given, by " user:<owner>" when only owner is given, and the bare query
\* otherwise (only repo given included); never more than one qualifier.
C7_ScopedQuery ==
  \A i \in AllSlots :
    (inv[i].op = "search_code" /\ Len(inv[i].calls) >= 1)
    => LET a == inv[i].args
           q == inv[i].calls[1].arg
       IN  /\ (Given(a.owner) /\ Given(a.repo))
                => q = a.query \o <<" repo:", a.owner[1], "/", a.repo[1]>>
           /\ (Given(a.owner) /\ ~Given(a.repo))
                => q = a.query \o <<" user:", a.owner[1]>>
           /\ ~Given(a.owner) => q = a.query

C7_Witness ==
  \E i \in AllSlots :
    /\ inv[i].op = "search_code" /\ Len(inv[i].calls) >= 1
    /\ Given(inv[i].args.owner) /\ Given(inv[i].args.repo)
    /\ inv[i].calls[1].arg = inv[i].args.query \o <<" repo:", "a", "/", "b">>

\* C8: for a remote search reporting M matches, search_code returns exactly
\* min(M, 50) results, the first min(M, 50) remote results in the remote
\* order.
C8_FirstFifty ==
  \A i \in AllSlots :
    (Finished(i, "search_code") /\ inv[i].calls[1].resp.ok)
    => LET remote == Results(i)
           v == inv[i].result.val
       IN  /\ inv[i].result.kind = "return"
           /\ Len(v) = (IF Len(remote) < 50 THEN Len(remote) ELSE 50)
           /\ \A k \in 1..Len(v) :
                v[k].name = remote[k].name /\ v[k].url = remote[k].html_url

C8_Witness ==
  \E i \in AllSlots :
    /\ Finished(i, "search_code") /\ inv[i].calls[1].resp.ok
    /\ Len(Results(i)) > 50
    /\ Results(i)[1].name > Results(i)[9].name
    /\ Len(inv[i].result.val) = 50

\* C9: no operation retries: once a remote call of an invocation has
\* failed, no further remote call is issued and the invocation has ended in
\* failure (test_connection: in the result false), never in a data record.
C9_NoRetry ==
  \A i \in AllSlots :
    \A k \in 1..Len(inv[i].calls) :
      ~inv[i].calls[k].resp.ok
      => /\ k = Len(inv[i].calls)
         /\ inv[i].pc = "done"
         /\ IF inv[i].op = "test_connection"
            THEN inv[i].result = Return(FALSE)
            ELSE inv[i].result.kind = "raise"

C9_Witness ==
  \E i \in AllSlots :
    /\ Finished(i, "get_file_content")
    /\ Len(inv[i].calls) = 2
    /\ inv[i].calls[1].resp.ok
    /\ ~inv[i].calls[2].resp.ok
    /\ inv[i].result.kind = "raise"

\* What an invocation of op with arguments a returns or raises when it runs
\* alone and its remote calls answer r[1], r[2], ... in turn.
RunAlone(op, a, r) ==
  CASE op = "get_repository_structure" ->
         IF ~r[1].ok THEN Raise(Escapes(op, r[1].err))
         ELSE IF ~r[2].ok THEN Raise(Escapes(op, r[2].err))
         ELSE Return(Listing(a.path, r[2].val))
    [] op = "get_file_content" ->
         IF ~r[1].ok THEN Raise(r[1].err)
         ELSE IF ~r[2].ok THEN Raise(r[2].err)
         ELSE IF r[2].val.is_list THEN Raise(DirectoryError)
         ELSE LET d == DecodeContent(r[2].val.file)
              IN  IF d.raised THEN Raise(d.exc)
                  ELSE Return(FileContent(a.path, d.str, r[2].val.file))
    [] op = "test_connection" ->
         IF r[1].ok THEN Return(Connected(r[1].val)) ELSE Swallowed(r[1].err)
    [] op = "get_repository_info" ->
         IF r[1].ok THEN Return(RepositoryInfo(r[1].val)) ELSE Raise(r[1].err)
    [] op = "search_code" ->
         IF r[1].ok THEN Return(FormattedResults(r[1].val)) ELSE Raise(r[1].err)

Responses(i) == [k \in 1..Len(inv[i].calls) |-> inv[i].calls[k].resp]

ResultAsAlone ==
  \A i \in AllSlots :
    inv[i].pc = "done"
    => inv[i].result = RunAlone(inv[i].op, inv[i].args, Responses(i))

ClientUnchanged == token' = token /\ github' = github

\* C10: concurrent calls on one client do not interact: in every
\* interleaving no invocation changes the token or the connection handle
\* set at construction, and each invocation's result is the one it would
\* produce run alone against the same remote responses.
C10_NoInteraction == []ResultAsAlone /\ [][ClientUnchanged]_vars

C10_Witness ==
  /\ Finished(1, "get_repository_structure") /\ Resolved(1)
  /\ Finished(2, "get_file_content") /\ Resolved(2)
  /\ Contents(1).is_list /\ Len(Contents(1).items) > 0
  /\ ~Contents(2).is_list
  /\ inv[1].result.kind = "return"
  /\ inv[2].result.kind = "return"

====
